---- MODULE Spec2Model ----
(***************************************************************************)
(* Model of bottom.py: the Client facade, the Connection state machine and *)
(* its read loop, and the Handler registry/dispatcher.                     *)
(*                                                                         *)
(* Text is modelled as tuples of character codes (ASCII), so that          *)
(* str.upper, bytes.decode(..., 'ignore') and str.strip are computed.      *)
(* The modules rfc and route are not part of bottom.py; their operators    *)
(* (parse, unique_command, unpack, validate, partial_bind) follow the      *)
(* interface given in the specification, section 6.                        *)
(***************************************************************************)
EXTENDS Integers, Sequences, FiniteSets, TLC

\* ---------------------------------------------------------------- bounds
MaxRegs  == 2   \* calls of Client.on(...)(func)
MaxCalls == 2   \* top-level calls of connect/disconnect/reconnect/loop
MaxReads == 2   \* calls of reader.readline()
MaxOpens == 3   \* successful asyncio.open_connection calls

\* ------------------------------------------------------------------ text
\* "CLIENT_CONNECT"
CLIENT_CONNECT == <<67,76,73,69,78,84,95,67,79,78,78,69,67,84>>
\* "CLIENT_DISCONNECT"
CLIENT_DISCONNECT == <<67,76,73,69,78,84,95,68,73,83,67,79,78,78,69,67,84>>
\* "client_connect"
client_connect == <<99,108,105,101,110,116,95,99,111,110,110,101,99,116>>
\* "PING", "ping", "Ping"
PING == <<80,73,78,71>>
ping == <<112,105,110,103>>
Ping == <<80,105,110,103>>
\* "JOIN"
JOIN == <<74,79,73,78>>
\* "XYZ": a well-formed token that is no command
XYZ == <<88,89,90>>

LOCAL_COMMANDS == {CLIENT_CONNECT, CLIENT_DISCONNECT}

\* command table of the codec (rfc)
ProtocolCommands == {PING, JOIN}

\* str.upper on ASCII text
Upper(s) == [i \in 1..Len(s) |-> IF s[i] \in 97..122 THEN s[i] - 32 ELSE s[i]]

\* rfc.unique_command: canonical token, or an error for an unknown token
unique_command(command) ==
    IF command \in ProtocolCommands
        THEN [ok |-> TRUE, val |-> command]
        ELSE [ok |-> FALSE, val |-> command]

get_command_case_sensitive(command) ==
    IF command \in LOCAL_COMMANDS
        THEN [ok |-> TRUE, val |-> command]
        ELSE unique_command(command)

\* lines 15-26
get_command(command) ==
    LET c == Upper(command) IN
    IF c \in LOCAL_COMMANDS
        THEN [ok |-> TRUE, val |-> c]
        ELSE unique_command(c)

\* legal field names of a canonical command (route)
LegalFields(command) ==
    IF command \in LOCAL_COMMANDS THEN {"host", "port"}
    ELSE IF command = PING THEN {"message"}
    ELSE IF command = JOIN THEN {"nick", "user", "host", "channel"}
    ELSE {}

\* the callables that calling code registers, and their declared parameters
Funcs == {"autojoin", "pong", "log"}
Params(func) ==
    IF func = "autojoin" THEN {"host", "port"}
    ELSE IF func = "pong" THEN {"message"}
    ELSE {}

\* route.validate: TRUE iff the signature fits the command
validate(command, func) == Params(func) \subseteq LegalFields(command)

\* bytes.decode(encoding, 'ignore'): bytes that are no text are dropped
decode(bytes) == SelectSeq(bytes, LAMBDA b : b < 128)

IsSpace(c) == c \in {9, 10, 11, 12, 13, 32}

RECURSIVE lstrip(_)
lstrip(s) == IF s # <<>> /\ IsSpace(Head(s)) THEN lstrip(Tail(s)) ELSE s

RECURSIVE rstrip(_)
rstrip(s) ==
    IF s # <<>> /\ IsSpace(s[Len(s)]) THEN rstrip(SubSeq(s, 1, Len(s) - 1)) ELSE s

\* str.strip
strip(s) == rstrip(lstrip(s))

\* rfc.parse: (prefix, command, params, message), or nothing.  A line is
\* understood when it is  command [" :" message]  with a command of letters
\* and underscores.
IsWordChar(c) == c \in 65..90 \/ c \in 97..122 \/ c = 95

WordEnd(s) ==
    IF \E i \in 1..Len(s) : s[i] = 32
        THEN (CHOOSE i \in 1..Len(s) : s[i] = 32 /\ \A j \in 1..(i-1) : s[j] # 32) - 1
        ELSE Len(s)

parse(msg) ==
    LET e == WordEnd(msg)
        word == SubSeq(msg, 1, e)
        rest == SubSeq(msg, e + 1, Len(msg))
        wordOk == word # <<>> /\ \A i \in 1..Len(word) : IsWordChar(word[i])
        restOk == rest = <<>> \/ (Len(rest) >= 2 /\ rest[1] = 32 /\ rest[2] = 58)
    IN  IF wordOk /\ restOk
            THEN [ok |-> TRUE, prefix |-> <<>>, command |-> word, params |-> <<>>,
                  message |-> IF rest = <<>> THEN <<>> ELSE SubSeq(rest, 3, Len(rest))]
            ELSE [ok |-> FALSE, prefix |-> <<>>, command |-> <<>>, params |-> <<>>,
                  message |-> <<>>]

\* route.unpack: the command token of the parsed line and its field mapping
unpack(args) ==
    [command |-> args.command,
     kwargs  |-> [f \in LegalFields(Upper(args.command)) |-> args.message]]

\* what reader.readline() can return: b"" at EOF, else one line
EOF == <<>>
RawLines == {
    EOF,
    <<10>>,                          \* "\n"
    <<80,73,78,71,32,58,120,10>>,    \* "PING :x\n"
    <<112,105,110,103,10>>,          \* "ping\n"
    <<88,89,90,10>>,                 \* "XYZ\n"
    <<255,33,10>> }                  \* a byte that is no text, "!\n"

\* what calling code registers: Client.on(token)(func)
RegInputs == {
    <<client_connect, "autojoin">>,
    <<CLIENT_DISCONNECT, "log">>,
    <<ping, "pong">>,
    <<ping, "log">>,
    <<ping, "autojoin">>,            \* parameters that are no fields of PING
    <<XYZ, "log">> }                 \* no command

Hosts == {"localhost"}
Ports == {6697}

None == 0
Unbound == <<-1>>
NoKwargs == [f \in {} |-> <<>>]

VARIABLES
    host, port, reader, writer,     \* Connection
    coros, nextId,                  \* Handler.coros and the identity of the next wrapper
    stack,                          \* position of the main coroutine (innermost frame last)
    hcmd, hkw, hsrc, hret,          \* Handler.__call__: arguments, origin, return value
    line, msg,                      \* Connection.read / Connection.loop locals
    tasks, nev,                     \* tasks given to asyncio.wait, number of task groups
    nopen, closed,                  \* transport: streams opened so far, streams closed
    err, loopStatus,                \* exception seen by the top-level caller, loop state
    nregs, ncalls, nreads,          \* bound counters
    nConnOk, nConnDisp, nDiscCalls, nDiscDisp, ndisp,   \* history: counts
    ops, snap,                      \* history: operations since the last read, state at the last read
    hfail,                          \* history: a handler of the latest dispatch failed
    sent,                           \* transport: what was written, and to which stream
    lastLife                        \* history: latest lifecycle event dispatched by this run of the loop

connVars == <<host, port, reader, writer>>
regVars  == <<coros, nextId>>
callVars == <<hcmd, hkw, hsrc, hret>>
readVars == <<line, msg>>
taskVars == <<tasks, nev>>
netVars  == <<nopen, closed>>
cntVars  == <<nregs, ncalls, nreads>>
histVars == <<nConnOk, nConnDisp, nDiscCalls, nDiscDisp, ndisp>>
logVars  == <<ops, snap, hfail>>
auxVars  == <<sent, lastLife>>

vars == <<host, port, reader, writer, coros, nextId, stack, hcmd, hkw, hsrc, hret,
          line, msg, tasks, nev, nopen, closed, err, loopStatus, nregs, ncalls,
          nreads, nConnOk, nConnDisp, nDiscCalls, nDiscDisp, ndisp, ops, snap, hfail,
          sent, lastLife>>

Top == IF stack = <<>> THEN "idle" ELSE stack[Len(stack)]
Pop == SubSeq(stack, 1, Len(stack) - 1)

ConnState == [host |-> host, port |-> port, reader |-> reader, writer |-> writer,
              ndisp |-> ndisp, nev |-> nev]

Init ==
    /\ host \in Hosts /\ port \in Ports
    /\ reader = None /\ writer = None
    /\ coros = [c \in {} |-> {}] /\ nextId = 1
    /\ stack = <<>>
    /\ hcmd = <<>> /\ hkw = NoKwargs /\ hsrc = 0 /\ hret = "unset"
    /\ line = Unbound /\ msg = Unbound
    /\ tasks = {} /\ nev = 0
    /\ nopen = 0 /\ closed = <<>>
    /\ err = "none" /\ loopStatus = "not_started"
    /\ nregs = 0 /\ ncalls = 0 /\ nreads = 0
    /\ nConnOk = 0 /\ nConnDisp = 0 /\ nDiscCalls = 0 /\ nDiscDisp = 0 /\ ndisp = 0
    /\ ops = <<>> /\ hfail = FALSE
    /\ sent = <<>> /\ lastLife = "none"
    /\ snap = [host |-> host, port |-> port, reader |-> None, writer |-> None,
               ndisp |-> 0, nev |-> 0]

\* ------------------------------------------------------------- helpers
\* collections.defaultdict(set): a lookup of a missing key inserts set()
Lookup(d, k) == IF k \in DOMAIN d THEN d[k] ELSE {}
Touch(d, k) == [x \in DOMAIN d \cup {k} |-> Lookup(d, x)]

Complete(t) == t.st \in {"done", "failed"}

\* an exception that no frame catches unwinds the main coroutine
Raise(kind) ==
    /\ stack' = <<>>
    /\ err' = kind
    /\ loopStatus' = IF loopStatus = "running" THEN "terminated" ELSE loopStatus

Log(x) == IF loopStatus = "running" THEN Append(ops, x) ELSE ops

EventName(c) ==
    IF c = CLIENT_CONNECT THEN "CLIENT_CONNECT"
    ELSE IF c = CLIENT_DISCONNECT THEN "CLIENT_DISCONNECT"
    ELSE "protocol"

\* ------------------------------------------------ Handler.add, Client.on
add_insert_first(command, func) ==
    LET c == get_command(command) IN
    IF ~c.ok
        THEN /\ err' = "UnknownCommand"
             /\ UNCHANGED regVars
        ELSE /\ coros' = [Touch(coros, c.val) EXCEPT
                    ![c.val] = @ \cup {[id |-> nextId, func |-> func]}]
             /\ nextId' = nextId + 1
             /\ err' = IF validate(c.val, func) THEN "none" ELSE "BindingError"

add(command, func) ==
    LET c == get_command(command) IN
    IF ~c.ok
        THEN /\ err' = "UnknownCommand"
             /\ UNCHANGED regVars
        ELSE IF ~validate(c.val, func)
            THEN /\ err' = "BindingError"
                 /\ UNCHANGED regVars
            ELSE \* partial_bind and asyncio.coroutine each build a new object
                 /\ coros' = [Touch(coros, c.val) EXCEPT
                        ![c.val] = @ \cup {[id |-> nextId, func |-> func]}]
                 /\ nextId' = nextId + 1
                 /\ err' = "none"

on(token, func) ==
    /\ stack = <<>>
    /\ ncalls = 0          \* handlers are registered before the client is driven
    /\ nregs < MaxRegs
    /\ nregs' = nregs + 1
    /\ LET c == get_command(token) IN
         IF c.ok
            THEN add(c.val, func)
            ELSE /\ err' = "UnknownCommand"
                 /\ UNCHANGED regVars
    /\ UNCHANGED <<auxVars, connVars, stack, callVars, readVars, taskVars, netVars,
                   loopStatus, ncalls, nreads, histVars, logVars>>

\* ------------------------------------------------- calls by calling code
\* connect(), disconnect() or reconnect() driven to completion by the caller
call(f) ==
    /\ stack = <<>>
    /\ loopStatus = "not_started"   \* run() does not return; when it raises, the program ends
    /\ ncalls < MaxCalls
    /\ ncalls' = ncalls + 1
    /\ stack' = <<f>>
    /\ err' = "none"
    /\ UNCHANGED <<auxVars, connVars, regVars, callVars, readVars, taskVars, netVars,
                   loopStatus, nregs, nreads, histVars, logVars>>

\* Client.run: drives Connection.loop, whose first statement is connect()
run ==
    /\ stack = <<>>
    /\ loopStatus = "not_started"
    /\ ncalls < MaxCalls
    /\ ncalls' = ncalls + 1
    /\ stack' = <<"loop_read", "connect">>
    /\ err' = "none"
    /\ loopStatus' = "running"
    /\ line' = Unbound /\ msg' = Unbound
    /\ ops' = <<>>
    /\ lastLife' = "none"
    /\ UNCHANGED <<sent, connVars, regVars, callVars, taskVars, netVars,
                   nregs, nreads, histVars, snap, hfail>>

\* ------------------------------------------------------------ Connection
\* message given to Connection.send: " PING\n"
Messages == {<<32, 80, 73, 78, 71, 10>>}

\* str.encode of ASCII text: one byte per character, same code
encode(m) == [i \in 1..Len(m) |-> m[i] % 256]

send_reset_on_error(m) ==
    /\ stack = <<>>
    /\ loopStatus = "not_started"
    /\ ncalls < MaxCalls
    /\ ncalls' = ncalls + 1
    /\ IF writer = None
          THEN /\ err' = "AttributeError"
               /\ UNCHANGED <<connVars, sent>>
          ELSE \/ /\ sent' = Append(sent, [stream |-> writer, data |-> encode(strip(m) \o <<10>>)])
                  /\ err' = "none"
                  /\ UNCHANGED connVars
               \/ /\ err' = "WriteError"
                  /\ reader' = None /\ writer' = None
                  /\ UNCHANGED <<host, port, sent>>
    /\ UNCHANGED <<regVars, stack, callVars, readVars, taskVars, netVars, loopStatus,
                   nregs, nreads, histVars, logVars, lastLife>>

\* lines 141-144, called by the calling code between its other calls
send(m) ==
    /\ stack = <<>>
    /\ loopStatus = "not_started"
    /\ ncalls < MaxCalls
    /\ ncalls' = ncalls + 1
    /\ IF writer = None
          THEN \* None has no attribute write
               /\ err' = "AttributeError"
               /\ sent' = sent
          ELSE \/ /\ sent' = Append(sent, [stream |-> writer, data |-> encode(strip(m) \o <<10>>)])
                  /\ err' = "none"
               \/ \* encode or writer.write raises
                  /\ err' = "WriteError"
                  /\ sent' = sent
    /\ UNCHANGED <<connVars, regVars, stack, callVars, readVars, taskVars, netVars,
                   loopStatus, nregs, nreads, histVars, logVars, lastLife>>

connect_reset_on_fail ==
    /\ Top = "connect"
    /\ \/ /\ nopen < MaxOpens
          /\ nopen' = nopen + 1
          /\ reader' = nopen + 1 /\ writer' = nopen + 1
          /\ hcmd' = CLIENT_CONNECT
          /\ hkw' = [host |-> host, port |-> port]
          /\ hsrc' = 0 /\ hret' = "unset"
          /\ stack' = Pop \o <<"connect_ret", "handle">>
          /\ nConnOk' = nConnOk + 1
          /\ ops' = Log("connect")
          /\ UNCHANGED <<host, port, closed, err, loopStatus>>
       \/ /\ Raise("ConnectError")
          /\ ops' = Log("connect_failed")
          /\ reader' = None /\ writer' = None
          /\ UNCHANGED <<host, port, callVars, netVars, nConnOk>>
    /\ UNCHANGED <<sent, lastLife, regVars, readVars, taskVars, cntVars,
                   nConnDisp, nDiscCalls, nDiscDisp, ndisp, snap, hfail>>

\* lines 100-105
connect ==
    /\ Top = "connect"
    /\ \/ \* asyncio.open_connection returns a (reader, writer) pair
          /\ nopen < MaxOpens
          /\ nopen' = nopen + 1
          /\ reader' = nopen + 1 /\ writer' = nopen + 1
          /\ hcmd' = CLIENT_CONNECT
          /\ hkw' = [host |-> host, port |-> port]
          /\ hsrc' = 0 /\ hret' = "unset"
          /\ stack' = Pop \o <<"connect_ret", "handle">>
          /\ nConnOk' = nConnOk + 1
          /\ ops' = Log("connect")
          /\ UNCHANGED <<host, port, closed, err, loopStatus>>
       \/ \* asyncio.open_connection raises
          /\ Raise("ConnectError")
          /\ ops' = Log("connect_failed")
          /\ UNCHANGED <<connVars, callVars, netVars, nConnOk>>
    /\ UNCHANGED <<sent, lastLife, regVars, readVars, taskVars, cntVars,
                   nConnDisp, nDiscCalls, nDiscDisp, ndisp, snap, hfail>>

disconnect_dedup ==
    /\ Top = "disconnect"
    /\ reader' = None
    /\ writer' = None
    /\ closed' = IF writer # None THEN Append(closed, writer) ELSE closed
    /\ nDiscCalls' = nDiscCalls + 1
    /\ ops' = Log("disconnect")
    /\ IF writer # None
          THEN /\ hcmd' = CLIENT_DISCONNECT
               /\ hkw' = [host |-> host, port |-> port]
               /\ hsrc' = 0 /\ hret' = "unset"
               /\ stack' = Pop \o <<"disconnect_ret", "handle">>
          ELSE /\ stack' = Pop \o <<"disconnect_ret">>
               /\ UNCHANGED callVars
    /\ UNCHANGED <<auxVars, host, port, regVars, readVars, taskVars, nopen, err, loopStatus,
                   cntVars, nConnOk, nConnDisp, nDiscDisp, ndisp, snap, hfail>>

disconnect_unguarded ==
    /\ Top = "disconnect"
    /\ nDiscCalls' = nDiscCalls + 1
    /\ ops' = Log("disconnect")
    /\ IF writer = None
          THEN /\ Raise("AttributeError")
               /\ UNCHANGED <<connVars, closed, callVars>>
          ELSE /\ reader' = None
               /\ writer' = None
               /\ closed' = Append(closed, writer)
               /\ hcmd' = CLIENT_DISCONNECT
               /\ hkw' = [host |-> host, port |-> port]
               /\ hsrc' = 0 /\ hret' = "unset"
               /\ stack' = Pop \o <<"disconnect_ret", "handle">>
               /\ UNCHANGED <<host, port, err, loopStatus>>
    /\ UNCHANGED <<auxVars, regVars, readVars, taskVars, nopen,
                   cntVars, nConnOk, nConnDisp, nDiscDisp, ndisp, snap, hfail>>

\* lines 107-115
disconnect ==
    /\ Top = "disconnect"
    /\ reader' = None
    /\ writer' = None
    /\ closed' = IF writer # None THEN Append(closed, writer) ELSE closed
    /\ hcmd' = CLIENT_DISCONNECT
    /\ hkw' = [host |-> host, port |-> port]
    /\ hsrc' = 0 /\ hret' = "unset"
    /\ stack' = Pop \o <<"disconnect_ret", "handle">>
    /\ nDiscCalls' = nDiscCalls + 1
    /\ ops' = Log("disconnect")
    /\ UNCHANGED <<auxVars, host, port, regVars, readVars, taskVars, nopen, err, loopStatus,
                   cntVars, nConnOk, nConnDisp, nDiscDisp, ndisp, snap, hfail>>

reconnect_connect_first ==
    /\ \/ /\ Top = "reconnect"
          /\ stack' = Pop \o <<"reconnect_mid", "connect">>
       \/ /\ Top = "reconnect_mid"
          /\ stack' = Pop \o <<"reconnect_ret", "disconnect">>
    /\ UNCHANGED <<auxVars, connVars, regVars, callVars, readVars, taskVars, netVars, err,
                   loopStatus, cntVars, histVars, logVars>>

reconnect_disconnect_only ==
    /\ Top = "reconnect"
    /\ stack' = Pop \o <<"reconnect_ret", "disconnect">>
    /\ UNCHANGED <<auxVars, connVars, regVars, callVars, readVars, taskVars, netVars, err,
                   loopStatus, cntVars, histVars, logVars>>

reconnect_connect_only ==
    /\ Top = "reconnect"
    /\ stack' = Pop \o <<"reconnect_ret", "connect">>
    /\ UNCHANGED <<auxVars, connVars, regVars, callVars, readVars, taskVars, netVars, err,
                   loopStatus, cntVars, histVars, logVars>>

\* lines 117-120: disconnect(), then connect()
reconnect ==
    /\ \/ /\ Top = "reconnect"
          /\ stack' = Pop \o <<"reconnect_mid", "disconnect">>
       \/ /\ Top = "reconnect_mid"
          /\ stack' = Pop \o <<"reconnect_ret", "connect">>
    /\ UNCHANGED <<auxVars, connVars, regVars, callVars, readVars, taskVars, netVars, err,
                   loopStatus, cntVars, histVars, logVars>>

\* a coroutine returns to the frame that waits for it
return ==
    /\ Top \in {"connect_ret", "disconnect_ret", "reconnect_ret", "handle_ret"}
    /\ stack' = Pop
    \* the Task objects of a call are dropped with its frame
    /\ tasks' = IF Top = "handle_ret" THEN {t \in tasks : ~Complete(t)} ELSE tasks
    /\ UNCHANGED <<auxVars, connVars, regVars, callVars, readVars, nev, netVars, err,
                   loopStatus, cntVars, histVars, logVars>>

\* ------------------------------------------------------ Handler.__call__
\* asyncio.wait(tasks) returns when all of its tasks are complete
FirstCompleted(ts) == \E t \in ts : Complete(t)

AllCompleted(ts) == \A t \in ts : Complete(t)

Current == {t \in tasks : t.ev = nev}

\* tasks = [coro(kwargs) for coro in coros]
Launch(cs) ==
    {[id |-> co.id, func |-> co.func, ev |-> nev + 1, src |-> hsrc,
      args |-> hkw, st |-> "pending", slow |-> FALSE] : co \in cs}

handle_no_wait ==
    /\ Top = "handle"
    /\ LET c == get_command(hcmd) IN
         IF ~c.ok
            THEN /\ Raise("UnknownCommand")
                 /\ UNCHANGED <<coros, hret, tasks, nev, nConnDisp, nDiscDisp, ndisp,
                                ops, hfail, lastLife>>
            ELSE /\ err' = err /\ loopStatus' = loopStatus
                 /\ coros' = Touch(coros, c.val)
                 /\ ndisp' = ndisp + 1
                 /\ nConnDisp' = IF c.val = CLIENT_CONNECT THEN nConnDisp + 1 ELSE nConnDisp
                 /\ nDiscDisp' = IF c.val = CLIENT_DISCONNECT THEN nDiscDisp + 1 ELSE nDiscDisp
                 /\ ops' = Log(EventName(c.val))
                 /\ hfail' = FALSE
                 /\ lastLife' = IF loopStatus = "running" /\ c.val \in LOCAL_COMMANDS
                                 THEN EventName(c.val) ELSE lastLife
                 /\ hret' = "None"
                 /\ stack' = Pop \o <<"handle_ret">>
                 /\ IF Lookup(coros, c.val) = {}
                       THEN UNCHANGED taskVars
                       ELSE /\ tasks' = {t \in tasks : ~Complete(t)}
                                            \cup Launch(Lookup(coros, c.val))
                            /\ nev' = nev + 1
    /\ UNCHANGED <<sent, connVars, nextId, hcmd, hkw, hsrc, readVars, netVars, cntVars,
                   nConnOk, nDiscCalls, snap>>

handle_no_empty_check ==
    /\ Top = "handle"
    /\ LET c == get_command(hcmd) IN
         IF ~c.ok
            THEN /\ Raise("UnknownCommand")
                 /\ UNCHANGED <<coros, hret, tasks, nev, nConnDisp, nDiscDisp, ndisp,
                                ops, hfail, lastLife>>
            ELSE /\ coros' = Touch(coros, c.val)
                 /\ ndisp' = ndisp + 1
                 /\ nConnDisp' = IF c.val = CLIENT_CONNECT THEN nConnDisp + 1 ELSE nConnDisp
                 /\ nDiscDisp' = IF c.val = CLIENT_DISCONNECT THEN nDiscDisp + 1 ELSE nDiscDisp
                 /\ ops' = Log(EventName(c.val))
                 /\ hfail' = FALSE
                 /\ lastLife' = IF loopStatus = "running" /\ c.val \in LOCAL_COMMANDS
                                 THEN EventName(c.val) ELSE lastLife
                 /\ hret' = hret
                 /\ IF Lookup(coros, c.val) = {}
                       THEN \* asyncio.wait of an empty list raises
                            /\ Raise("ValueError")
                            /\ UNCHANGED taskVars
                       ELSE /\ err' = err /\ loopStatus' = loopStatus
                            /\ stack' = Pop \o <<"handle_wait">>
                            /\ tasks' = {t \in tasks : ~Complete(t)}
                                            \cup Launch(Lookup(coros, c.val))
                            /\ nev' = nev + 1
    /\ UNCHANGED <<sent, connVars, nextId, hcmd, hkw, hsrc, readVars, netVars, cntVars,
                   nConnOk, nDiscCalls, snap>>

\* lines 180-183: normalize, look up, return if there is no handler, else
\* create the tasks and wait
handle ==
    /\ Top = "handle"
    /\ LET c == get_command(hcmd) IN
         IF ~c.ok
            THEN /\ Raise("UnknownCommand")
                 /\ UNCHANGED <<coros, hret, tasks, nev, nConnDisp, nDiscDisp, ndisp,
                                ops, hfail, lastLife>>
            ELSE /\ err' = err /\ loopStatus' = loopStatus
                 /\ coros' = Touch(coros, c.val)
                 /\ ndisp' = ndisp + 1
                 /\ nConnDisp' = IF c.val = CLIENT_CONNECT THEN nConnDisp + 1 ELSE nConnDisp
                 /\ nDiscDisp' = IF c.val = CLIENT_DISCONNECT THEN nDiscDisp + 1 ELSE nDiscDisp
                 /\ ops' = Log(EventName(c.val))
                 /\ hfail' = FALSE
                 /\ lastLife' = IF loopStatus = "running" /\ c.val \in LOCAL_COMMANDS
                                 THEN EventName(c.val) ELSE lastLife
                 /\ IF Lookup(coros, c.val) = {}
                       THEN /\ hret' = "None"
                            /\ stack' = Pop \o <<"handle_ret">>
                            /\ UNCHANGED taskVars
                       ELSE /\ hret' = hret
                            /\ stack' = Pop \o <<"handle_wait">>
                            /\ tasks' = {t \in tasks : ~Complete(t)}
                                            \cup Launch(Lookup(coros, c.val))
                            /\ nev' = nev + 1
    /\ UNCHANGED <<sent, connVars, nextId, hcmd, hkw, hsrc, readVars, netVars, cntVars,
                   nConnOk, nDiscCalls, snap>>

\* the event loop runs tasks while the main coroutine is suspended
Suspended == Top \in {"handle_wait", "loop_read", "connect"}

\* a handler that is a coroutine reaches a suspension point of its own
task_start(t) ==
    /\ Suspended
    /\ t \in tasks /\ t.st = "pending"
    /\ tasks' = (tasks \ {t}) \cup {[t EXCEPT !.st = "running", !.slow = TRUE]}
    /\ UNCHANGED <<auxVars, connVars, regVars, stack, callVars, readVars, nev, netVars, err,
                   loopStatus, cntVars, histVars, logVars>>

\* a handler returns (ok) or raises; the Task object keeps the outcome
task_finish(t, ok) ==
    /\ Suspended
    /\ t \in tasks /\ t.st \in {"pending", "running"}
    /\ tasks' = (tasks \ {t}) \cup {[t EXCEPT !.st = IF ok THEN "done" ELSE "failed"]}
    /\ UNCHANGED <<auxVars, connVars, regVars, stack, callVars, readVars, nev, netVars, err,
                   loopStatus, cntVars, histVars, logVars>>

gather_return ==
    /\ Top = "handle_wait"
    /\ AllCompleted(Current)
    /\ IF \E t \in Current : t.st = "failed"
          THEN /\ Raise("HandlerError")
               /\ hret' = hret
          ELSE /\ hret' = "None"
               /\ stack' = Pop \o <<"handle_ret">>
               /\ UNCHANGED <<err, loopStatus>>
    /\ hfail' = \E t \in Current : t.st = "failed"
    /\ UNCHANGED <<auxVars, connVars, regVars, hcmd, hkw, hsrc, readVars, taskVars, netVars,
                   cntVars, histVars, ops, snap>>

\* line 184: asyncio.wait returns (its result is dropped), __call__ returns None
wait_return ==
    /\ Top = "handle_wait"
    /\ AllCompleted(Current)
    /\ hret' = "None"
    /\ stack' = Pop \o <<"handle_ret">>
    /\ hfail' = \E t \in Current : t.st = "failed"
    /\ UNCHANGED <<auxVars, connVars, regVars, hcmd, hkw, hsrc, readVars, taskVars, netVars,
                   err, loopStatus, cntVars, histVars, ops, snap>>

\* ------------------------------------------- Connection.read and .loop
read ==
    /\ Top = "loop_read"
    /\ nreads < MaxReads
    /\ nreads' = nreads + 1
    /\ IF reader = None
          THEN /\ Raise("AttributeError")
               /\ UNCHANGED <<readVars, logVars>>
          ELSE /\ \E raw \in RawLines :
                    /\ line' = raw
                    /\ msg' = strip(decode(raw))
               /\ stack' = Pop \o <<"loop_msg">>
               /\ snap' = ConnState
               /\ ops' = <<>>
               /\ UNCHANGED <<err, loopStatus, hfail>>
    /\ UNCHANGED <<auxVars, connVars, regVars, callVars, taskVars, netVars, nregs, ncalls,
                   histVars>>

loop_no_check ==
    /\ Top = "loop_msg"
    /\ IF msg # <<>>
          THEN LET u == unpack(parse(msg)) IN
               /\ hcmd' = u.command /\ hkw' = u.kwargs
               /\ hsrc' = nreads /\ hret' = "unset"
               /\ stack' = Pop \o <<"loop_read", "handle">>
          ELSE /\ stack' = Pop \o <<"loop_read", "reconnect">>
               /\ UNCHANGED callVars
    /\ UNCHANGED <<auxVars, connVars, regVars, readVars, taskVars, netVars, err, loopStatus,
                   cntVars, histVars, logVars>>

\* lines 127-139: the body of the while loop after the read
loop_body ==
    /\ Top = "loop_msg"
    /\ IF msg # <<>>
          THEN LET args == parse(msg) IN
               IF ~args.ok
                  THEN /\ stack' = Pop \o <<"loop_read">>
                       /\ UNCHANGED callVars
                  ELSE LET u == unpack(args) IN
                       /\ hcmd' = u.command /\ hkw' = u.kwargs
                       /\ hsrc' = nreads /\ hret' = "unset"
                       /\ stack' = Pop \o <<"loop_read", "handle">>
          ELSE /\ stack' = Pop \o <<"loop_read", "reconnect">>
               /\ UNCHANGED callVars
    /\ UNCHANGED <<auxVars, connVars, regVars, readVars, taskVars, netVars, err, loopStatus,
                   cntVars, histVars, logVars>>

\* ------------------------------------------------------------------ Next
Next ==
    \/ \E r \in RegInputs : on(r[1], r[2])
    \/ \E f \in {"connect", "disconnect", "reconnect"} : call(f)
    \/ run
    \/ \E m \in Messages : send(m)
    \/ connect
    \/ disconnect
    \/ reconnect
    \/ return
    \/ handle
    \/ \E t \in tasks : task_start(t)
    \/ \E t \in tasks, ok \in BOOLEAN : task_finish(t, ok)
    \/ wait_return
    \/ read
    \/ loop_body

Spec == Init /\ [][Next]_vars

\* ================================================================ claims
IsPrefix(a, b) == Len(a) <= Len(b) /\ SubSeq(b, 1, Len(a)) = a

InHandle == Top \in {"handle", "handle_wait", "handle_ret"}

\* the handler set that the dispatch in progress looked up
Registered == Lookup(coros, get_command(hcmd).val)

\* C1: per-event barrier.  When Handler.__call__ gives control back after a
\* dispatch whose handler set is not empty, every handler registered for the
\* normalized command has been invoked for this event with the event's field
\* mapping, and every one of them is complete.
C1_PerEventBarrier ==
    (Top = "handle_ret" /\ Registered # {}) =>
        \A co \in Registered :
            \E t \in tasks :
                /\ t.id = co.id /\ t.func = co.func
                /\ t.ev = nev /\ t.args = hkw
                /\ Complete(t)

\* a protocol dispatch has returned after a slow and a fast handler both ran
C1_Witness ==
    /\ Top = "handle_ret" /\ hsrc > 0
    /\ \E t1, t2 \in Current : t1.slow /\ ~t2.slow /\ Complete(t1) /\ Complete(t2)

\* C2: event serialization.  While the read loop runs, every handler in
\* flight belongs to the latest event and the main coroutine is waiting for
\* exactly that event; a protocol event being dispatched is the event of the
\* line read last, so that lines are dispatched in the order they are read.
C2_EventSerialization ==
    loopStatus = "running" =>
        /\ \A t \in tasks : ~Complete(t) => (t.ev = nev /\ Top = "handle_wait")
        /\ \A t \in tasks : (~Complete(t) /\ t.src > 0) => t.src = nreads
        /\ (InHandle /\ hsrc > 0) => hsrc = nreads

\* a handler of a second event runs in the read loop, after the first event
C2_Witness ==
    /\ loopStatus = "running" /\ nev >= 2 /\ hsrc > 0
    /\ \E t \in tasks : t.ev = nev /\ t.st = "running"

ReconnectOps == <<"disconnect", "CLIENT_DISCONNECT", "connect", "CLIENT_CONNECT">>
ReconnectFailedOps == <<"disconnect", "CLIENT_DISCONNECT", "connect_failed">>

ClosedStreams == {closed[i] : i \in 1..Len(closed)}

\* C3: reconnect on EOF.  After readline() returned EOF, what the loop does
\* until its next read is one disconnect() and then one connect(), each with
\* its lifecycle dispatch and nothing else; host and port are those of the
\* time of the read; and when the loop is back at its read, reader and writer
\* are the stream that this connect() opened.
C3_ReconnectOnEOF ==
    (loopStatus # "not_started" /\ line = EOF) =>
        /\ host = snap.host /\ port = snap.port
        /\ IF loopStatus = "running"
              THEN /\ IsPrefix(ops, ReconnectOps)
                   /\ Top = "loop_read" =>
                        /\ ops = ReconnectOps
                        /\ reader = nopen /\ writer = nopen
                        /\ reader # None /\ reader # snap.reader
                        /\ reader \notin ClosedStreams
              ELSE ops = ReconnectFailedOps

\* the loop is back at its read after an EOF
C3_Witness ==
    /\ loopStatus = "running" /\ line = EOF /\ Top = "loop_read"
    /\ ops = ReconnectOps /\ snap.reader \in ClosedStreams

PendingDispatch(c) == IF Top = "handle" /\ hsrc = 0 /\ hcmd = c THEN 1 ELSE 0

\* C4: lifecycle events fire once per transition.  The number of
\* CLIENT_CONNECT dispatches is the number of successful connect() calls, the
\* number of CLIENT_DISCONNECT dispatches is the number of disconnect() calls
\* (a dispatch about to be made counted), and each carries {host, port}.
C4_LifecycleOncePerTransition ==
    /\ nConnDisp + PendingDispatch(CLIENT_CONNECT) = nConnOk
    /\ nDiscDisp + PendingDispatch(CLIENT_DISCONNECT) = nDiscCalls
    /\ (InHandle /\ get_command(hcmd).val \in LOCAL_COMMANDS) =>
            hkw = [host |-> host, port |-> port]

\* two reconnect() calls (or the like) have completed
C4_Witness ==
    /\ stack = <<>> /\ err = "none"
    /\ nConnOk = 2 /\ nConnDisp = 2 /\ nDiscCalls = 2 /\ nDiscDisp = 2

\* C5: handler failure isolation.  A failed handler exists only while the
\* main coroutine is inside the dispatch (no exception unwinds it); when the
\* dispatch returns after a failure, every handler of the event is complete;
\* and in the read loop the dispatch returns into the loop, whose next step is
\* the read of the next line.
C5_HandlerFailureIsolation ==
    /\ (\E t \in tasks : t.st = "failed") =>
            Top \in {"handle_wait", "handle_ret"}
    /\ (Top = "handle_ret" /\ hfail) =>
            /\ \A co \in Registered : \E t \in Current : t.id = co.id /\ Complete(t)
            /\ (loopStatus = "running" /\ hsrc > 0) => stack = <<"loop_read", "handle_ret">>

\* after a dispatch in which one handler failed and its sibling did not, the
\* loop has read the next line
C5_Witness ==
    /\ loopStatus = "running" /\ Top = "loop_msg" /\ hfail
    /\ hsrc > 0 /\ hsrc < nreads
    /\ Cardinality(Lookup(coros, PING)) >= 2

\* C6: handler failure is surfaced.  When a dispatch returns after one of its
\* handlers failed, what the caller gets differs from what it gets from a
\* dispatch without a failure (which is None and no exception).
C6_HandlerFailureSurfaced ==
    (Top = "handle_ret" /\ hfail) => hret # "None"

Understood(m) == m # Unbound /\ m # <<>> /\ parse(m).ok
UnknownToken(m) == Understood(m) /\ ~get_command(parse(m).command).ok
Undecodable(m) == m # Unbound /\ m # <<>> /\ ~parse(m).ok

ConnUnchangedSinceRead ==
    /\ host = snap.host /\ port = snap.port
    /\ reader = snap.reader /\ writer = snap.writer

\* C7: unknown-command robustness.  After the loop read a line that parses
\* but whose command token is no command, no handler is invoked, nothing is
\* raised, the connection is as it was at the read and the loop keeps running.
C7_UnknownCommandDropped ==
    (loopStatus # "not_started" /\ UnknownToken(msg)) =>
        /\ loopStatus = "running" /\ err = "none"
        /\ nev = snap.nev
        /\ ConnUnchangedSinceRead

\* C8: decode-error discard.  After the loop read a non-empty line for which
\* parse returns nothing, the loop is at the line or back at its read: it
\* keeps running, no event is dispatched, no handler is invoked and reader,
\* writer, host and port are as they were at the read.
C8_DecodeErrorDiscard ==
    (loopStatus # "not_started" /\ Undecodable(msg)) =>
        /\ loopStatus = "running" /\ err = "none"
        /\ stack \in {<<"loop_msg">>, <<"loop_read">>}
        /\ ndisp = snap.ndisp /\ nev = snap.nev /\ tasks = {}
        /\ ConnUnchangedSinceRead

\* the loop is back at its read after the second line, which did not parse
C8_Witness ==
    /\ loopStatus = "running" /\ Undecodable(msg)
    /\ stack = <<"loop_read">> /\ nreads = 2 /\ reader # None

\* the effect that Client.on(token)(func) must have when token is a command
RegistrationStep(token, func) ==
    LET c == get_command(token) IN
    (on(token, func) /\ c.ok) =>
        IF validate(c.val, func)
            THEN /\ err' = "none"
                 /\ \E co \in Lookup(coros', c.val) :
                        co.func = func /\ co \notin Lookup(coros, c.val)
                 /\ \A k \in DOMAIN coros : coros[k] \subseteq coros'[k]
            ELSE /\ err' = "BindingError"
                 /\ coros' = coros /\ nextId' = nextId

\* every binding of the command being dispatched has a task of this event
DispatchInvokesRegistered ==
    Top \in {"handle_wait", "handle_ret"} =>
        \A co \in Registered : \E t \in tasks : t.id = co.id /\ t.ev = nev

\* C9: registration validation.  Registering a handler whose parameters are
\* no subset of the command's fields fails with a binding error and leaves
\* the registry as it was; registering one whose parameters are a subset
\* succeeds and adds a binding (keeping the others), and every binding of a
\* command is invoked by every dispatch of that command.
C9_RegistrationValidation ==
    /\ [][\A r \in RegInputs : RegistrationStep(r[1], r[2])]_vars
    /\ []DispatchInvokesRegistered

\* a registration failed with a binding error after another one succeeded
C9_Witness ==
    /\ err = "BindingError" /\ nregs = 2
    /\ \E k \in DOMAIN coros : coros[k] # {}

\* C10: duplicate registration is idempotent.  The registry holds a callable
\* at most once per command, and a dispatch has at most one task per callable.
C10_DuplicateRegistrationIdempotent ==
    /\ \A k \in DOMAIN coros : \A a, b \in coros[k] : a.func = b.func => a = b
    /\ \A t1, t2 \in Current : t1.func = t2.func => t1 = t2

\* str.lower on ASCII text, and t with the characters at the positions m in
\* lower case
Lower(s) == [i \in 1..Len(s) |-> IF s[i] \in 65..90 THEN s[i] + 32 ELSE s[i]]
Variant(t, m) == [i \in 1..Len(t) |-> IF i \in m THEN Lower(t)[i] ELSE t[i]]

ValidTokens == LOCAL_COMMANDS \cup ProtocolCommands

\* every case variant of a protocol token; of a local token the variants
\* with a lower-case prefix, suffix or single character
Masks(t) ==
    IF t \in ProtocolCommands
        THEN SUBSET (1..Len(t))
        ELSE {1..k : k \in 0..Len(t)} \cup {k..Len(t) : k \in 1..Len(t)}
                \cup {{k} : k \in 1..Len(t)}

NormalizationIdempotentAnyCase ==
    \A t \in ValidTokens : \A m \in Masks(t) :
        LET v == Variant(t, m) IN
        /\ get_command(v).ok
        /\ get_command(v) = get_command(t)
        /\ get_command(get_command(v).val) = get_command(v)

\* C11: normalization is idempotent and case-insensitive, and registry keys
\* converge.  Every case variant of a valid token normalizes to what the
\* token normalizes to, which normalizes to itself; every key of the registry
\* is such a fixed point, no two keys differ in case only; and a dispatch
\* makes a task of every binding whose key is the dispatched token in any case.
\* The first part is about get_command alone and is the same in every state;
\* it is evaluated before the first call.  The registry starts empty; its
\* keys are examined at every step that changes it.
RegistryKeysStep ==
    coros' # coros =>
        \A k1 \in DOMAIN coros' :
            /\ get_command(k1) = [ok |-> TRUE, val |-> k1]
            /\ \A k2 \in DOMAIN coros' \ {k1} : Upper(k1) # Upper(k2)

C11_NormalizationConverges ==
    /\ []((nregs = 0 /\ ncalls = 0) => NormalizationIdempotentAnyCase)
    /\ [][RegistryKeysStep]_vars
    /\ [](Top \in {"handle_wait", "handle_ret"} =>
            \A k \in DOMAIN coros : Upper(k) = Upper(hcmd) =>
                \A co \in coros[k] : \E t \in tasks : t.id = co.id /\ t.ev = nev)

\* handlers registered as "ping" have run for the wire token "PING", and
\* one registered as "client_connect" is in the registry under CLIENT_CONNECT
C11_Witness ==
    /\ Top = "handle_ret" /\ hsrc > 0 /\ hcmd = PING
    /\ \E t \in Current : Complete(t)
    /\ hcmd \notin {r[1] : r \in RegInputs}

NoHandlerStep ==
    (Top = "handle" /\ get_command(hcmd).ok /\ Registered = {}) =>
        /\ stack' = Pop \o <<"handle_ret">>
        /\ hret' = "None" /\ err' = err /\ loopStatus' = loopStatus
        /\ tasks' = tasks /\ nev' = nev
        /\ \A k \in DOMAIN coros \cup DOMAIN coros' : Lookup(coros', k) = Lookup(coros, k)

\* C12: no-handler no-op.  The dispatch of a valid command that has no
\* handler returns None in its first step, raises nothing, creates no task
\* and leaves the handlers of every command as they were.
C12_NoHandlerNoOp == [][NoHandlerStep]_vars

\* a protocol dispatch without a handler has returned, while another
\* command has a handler
C12_Witness ==
    /\ Top = "handle_ret" /\ hsrc > 0 /\ Registered = {}
    /\ hret = "None" /\ tasks = {} /\ err = "none"
    /\ \E k \in DOMAIN coros : coros[k] # {}

\* C13: the client keeps running across reconnects.  A transport error ends
\* the read loop only as a failure of the initial connect() of run(): when
\* the loop was ended by a failed connect, it had not read from any stream.
C13_LoopKeepsRunning ==
    (loopStatus = "terminated" /\ err = "ConnectError") => line = Unbound

\* a step of Connection.send: the caller's call returns or raises at once
SendStep == stack = <<>> /\ stack' = <<>> /\ ncalls' = ncalls + 1

\* C14: a send that fails raises to its caller and leaves reader, writer, host
\* and port exactly as they were, and nothing is written; a send while there
\* is no writer is such a failure.
SendFailureKeepsState ==
    SendStep =>
        /\ writer = None => err' # "none"
        /\ err' # "none" =>
              /\ err' \in {"AttributeError", "WriteError"}
              /\ connVars' = connVars
              /\ sent' = sent

C14_SendFailureKeepsState == [][SendFailureKeepsState]_vars

C14_Witness ==
    /\ stack = <<>> /\ err = "WriteError"
    /\ writer # None /\ reader = writer /\ sent = <<>>

\* C15: disconnect() is idempotent on connection state.  Every disconnect()
\* leaves reader and writer absent; one called while there is no reader and no
\* writer changes nothing in the Connection, closes no stream, and goes on to
\* dispatch CLIENT_DISCONNECT with {host, port}; no stream is closed twice.
DisconnectStep ==
    Top = "disconnect" =>
        /\ reader' = None /\ writer' = None
        /\ host' = host /\ port' = port
        /\ (reader = None /\ writer = None) =>
              /\ connVars' = connVars
              /\ netVars' = netVars
              /\ err' = err
              /\ Top' = "handle" /\ hcmd' = CLIENT_DISCONNECT
              /\ hkw' = [host |-> host, port |-> port]

C15_DisconnectIdempotent ==
    /\ [][DisconnectStep]_vars
    /\ [](\A i, j \in DOMAIN closed : closed[i] = closed[j] => i = j)

C15_Witness ==
    /\ stack = <<>> /\ err = "none"
    /\ nDiscCalls = 2 /\ nDiscDisp = 2
    /\ reader = None /\ writer = None
    /\ nopen = 0 /\ closed = <<>>

\* the dispatch in progress is the one made by connect()
InConnectDispatch ==
    /\ InHandle
    /\ Len(stack) >= 2 /\ stack[Len(stack) - 1] = "connect_ret"

\* C16: connect() outcome.  When the stream is opened, reader and writer are
\* both set before CLIENT_CONNECT is dispatched with {host, port}; when opening
\* fails, the error reaches the caller, nothing is dispatched, and reader and
\* writer are what they were before the call.
ConnectStep ==
    (Top = "connect" /\ stack' # stack) =>
        \/ /\ nopen' = nopen + 1
           /\ reader' = nopen' /\ writer' = nopen'
           /\ Top' = "handle" /\ hcmd' = CLIENT_CONNECT
           /\ hkw' = [host |-> host, port |-> port]
           /\ err' = err
        \/ /\ nopen' = nopen
           /\ err' = "ConnectError" /\ stack' = <<>>
           /\ connVars' = connVars
           /\ ndisp' = ndisp /\ nConnDisp' = nConnDisp /\ tasks' = tasks

C16_ConnectOutcome ==
    /\ [][ConnectStep]_vars
    /\ [](InConnectDispatch =>
            /\ reader # None /\ writer # None
            /\ hcmd = CLIENT_CONNECT
            /\ hkw = [host |-> host, port |-> port])
    /\ [](nConnDisp <= nConnOk)

C16_Witness ==
    /\ stack = <<>> /\ err = "ConnectError"
    /\ reader # None /\ writer = reader
    /\ nConnOk = 1 /\ nConnDisp = 1

\* C17: the read loop reads only while Connected.  Whenever Connection.loop
\* is at its read, reader and writer are both present and are the stream
\* opened last, which has not been closed.
C17_ReadOnlyWhileConnected ==
    Top = "loop_read" =>
        /\ reader # None /\ writer # None
        /\ reader = nopen /\ writer = nopen
        /\ nopen \notin ClosedStreams

C17_Witness ==
    /\ Top = "loop_read" /\ loopStatus = "running"
    /\ nreads = 1 /\ nopen = 2 /\ closed = <<1>>
    /\ reader = 2 /\ writer = 2

\* C18: reconnect is triggered only by a closed transport.  After a read that
\* returned a line received from the server (not EOF), the loop performs no
\* disconnect(), no connect() and no lifecycle dispatch before its next read:
\* the line is dispatched as a protocol event or discarded.
C18_ReconnectOnlyOnEOF ==
    (loopStatus = "running" /\ line # Unbound /\ line # EOF) =>
        /\ \A i \in DOMAIN ops : ops[i] = "protocol"
        /\ reader = snap.reader /\ writer = snap.writer

\* a step of Handler.__call__ that dispatches an event, made by the read loop
LoopDispatchStep == loopStatus = "running" /\ Top = "handle" /\ ndisp' = ndisp + 1

\* C19: lifecycle ordering under the read loop.  In a run of the loop
\* CLIENT_CONNECT is dispatched only as the first lifecycle event or after
\* CLIENT_DISCONNECT, CLIENT_DISCONNECT only after CLIENT_CONNECT, and a
\* protocol event only while the latest lifecycle event is CLIENT_CONNECT;
\* handlers of CLIENT_CONNECT run with reader and writer present, handlers of
\* CLIENT_DISCONNECT with both absent.
LifecycleOrderStep ==
    LoopDispatchStep =>
        LET c == get_command(hcmd).val IN
        /\ c = CLIENT_CONNECT => lastLife \in {"none", "CLIENT_DISCONNECT"}
        /\ c = CLIENT_DISCONNECT => lastLife = "CLIENT_CONNECT"
        /\ c \notin LOCAL_COMMANDS => lastLife = "CLIENT_CONNECT"

C20_AtMostOneOpenStream ==
    /\ \A st \in 1..nopen : st \notin {reader, writer} => st \in ClosedStreams
    /\ reader = None <=> writer = None

====
